---------------------------- MODULE Spec2Model ----------------------------
(***************************************************************************)
(* Twitch EventSub webhook library: the handler registry (on), the webhook *)
(* dispatcher (handleTwitchWebhook) and the signature verifier (getHmac,   *)
(* verifyMessage).  The repository holds two variants of the dispatcher:   *)
(* src/src/webhook_handler.ts and the one in src/unnamed/part_000.  They   *)
(* differ in verifyMessage (try/catch or not) and in the message-type      *)
(* switch (a "revocation" case or not); the variable build says which one  *)
(* is running.                                                              *)
(*                                                                         *)
(* Strings that are hashed or compared bytewise are sequences of character *)
(* codes (0..255); message types, event types and handler names are only   *)
(* compared for equality and are TLA+ strings.                             *)
(***************************************************************************)
EXTENDS Integers, Sequences, FiniteSets, TLC

(***************************** bounds **************************************)
\* number of hexadecimal digits of the modelled digest (64 for SHA-256)
HexDigits == 2
\* number of calls of on() in one behaviour
MaxOn == 4
\* number of Set objects ever allocated by on()
MaxSets == 3
\* number of calls of on() in a behaviour of Spec
MaxOnWebhook == 2
\* number of calls of on() in a behaviour of SpecDispatch
MaxOnDispatch == 2

\* method calls of the subscription client in one run
MaxClientCalls == 2

\* calls of on() in SpecQuiet
MaxOnQuiet == 2

(***************************** texts ***************************************)
\* the text  sha256=
SigPrefix ==
    <<115, 104, 97, 50, 53, 54, 61>>

\* the text  {
TextBadJson ==
    <<123>>

\* the text  null
TextNull ==
    <<110, 117, 108, 108>>

\* the text  {}
TextEmptyObject ==
    <<123, 125>>

\* the text  {"challenge":"abc123"}
TextChallenge ==
    <<123, 34, 99, 104, 97, 108, 108, 101, 110, 103, 101, 34, 58, 34, 97,
      98, 99, 49, 50, 51, 34, 125>>

\* the text  abc123
ChallengeValue ==
    <<97, 98, 99, 49, 50, 51>>

\* the text  {"challenge":""}
TextEmptyChallenge ==
    <<123, 34, 99, 104, 97, 108, 108, 101, 110, 103, 101, 34, 58, 34, 34,
      125>>

\* the text  {"subscription":{"type":"channel.follow"}}
TextFollow ==
    <<123, 34, 115, 117, 98, 115, 99, 114, 105, 112, 116, 105, 111, 110,
      34, 58, 123, 34, 116, 121, 112, 101, 34, 58, 34, 99, 104, 97, 110,
      110, 101, 108, 46, 102, 111, 108, 108, 111, 119, 34, 125, 125>>

\* the text  {"subscription":{"type":"channel.follow"},"event":2}
TextFollow2 ==
    <<123, 34, 115, 117, 98, 115, 99, 114, 105, 112, 116, 105, 111, 110,
      34, 58, 123, 34, 116, 121, 112, 101, 34, 58, 34, 99, 104, 97, 110,
      110, 101, 108, 46, 102, 111, 108, 108, 111, 119, 34, 125, 44, 34,
      101, 118, 101, 110, 116, 34, 58, 50, 125>>

\* the text  {"subscription":{"type":"channel.subscribe"}}
TextSubscribe ==
    <<123, 34, 115, 117, 98, 115, 99, 114, 105, 112, 116, 105, 111, 110,
      34, 58, 123, 34, 116, 121, 112, 101, 34, 58, 34, 99, 104, 97, 110,
      110, 101, 108, 46, 115, 117, 98, 115, 99, 114, 105, 98, 101, 34, 125,
      125>>

\* the text  {"subscription":{"type":"*"}}
TextStar ==
    <<123, 34, 115, 117, 98, 115, 99, 114, 105, 112, 116, 105, 111, 110,
      34, 58, 123, 34, 116, 121, 112, 101, 34, 58, 34, 42, 34, 125, 125>>

\* the text  {"subscription":{"type":"constructor"}}
TextConstructor ==
    <<123, 34, 115, 117, 98, 115, 99, 114, 105, 112, 116, 105, 111, 110,
      34, 58, 123, 34, 116, 121, 112, 101, 34, 58, 34, 99, 111, 110, 115,
      116, 114, 117, 99, 116, 111, 114, 34, 125, 125>>

\* the text  {"event":2}
TextNoSubscription ==
    <<123, 34, 101, 118, 101, 110, 116, 34, 58, 50, 125>>

\* a header that is absent (Headers.get returns null), or present with value v
None == <<>>
Some(v) == <<v>>

\* the event types of Conditions that the model uses
EventTypes == {"channel.follow", "channel.subscribe"}
\* the wildcard key
Wildcard == "*"
\* the keys of the registry map
EventKeys == EventTypes \cup {Wildcard}
\* the callbacks that user code registers
Handlers == {"h1", "h2"}
\* the two variants of the dispatcher in the repository
Builds == {"webhook_handler.ts", "part_000"}

(************************ signature verifier *******************************)
\* Buffer.from(string): the UTF-8 encoding of one character
Utf8Char(c) == IF c < 128 THEN <<c>> ELSE <<192 + (c \div 64), 128 + (c % 64)>>

RECURSIVE BufferFrom(_)
\* Buffer.from(string): the UTF-8 bytes of a string; an ASCII string is its
\* own encoding, another one is encoded half by half
BufferFrom(s) ==
    IF \A i \in DOMAIN s : s[i] < 128 THEN s
    ELSE IF Len(s) = 1 THEN Utf8Char(s[1])
    ELSE BufferFrom(SubSeq(s, 1, Len(s) \div 2))
            \o BufferFrom(SubSeq(s, Len(s) \div 2 + 1, Len(s)))

\* the number of values of the modelled digest
DigestSpace == 16 ^ HexDigits

\* the i-th byte of a block, 0 past its end
ByteAt(block, i) == IF i <= Len(block) THEN block[i] ELSE 0

\* the modelled compression function: one block of at most 8 bytes is mixed
\* into the running value
BlockMix(acc, block) ==
    (acc * 31 + Len(block)
        + 3 * ByteAt(block, 1) + 5 * ByteAt(block, 2) + 7 * ByteAt(block, 3)
        + 11 * ByteAt(block, 4) + 13 * ByteAt(block, 5) + 17 * ByteAt(block, 6)
        + 19 * ByteAt(block, 7) + 23 * ByteAt(block, 8)) % DigestSpace

RECURSIVE Compress(_, _)
\* the modelled hash: the blocks of the input are mixed in, first block first
Compress(acc, bytes) ==
    IF Len(bytes) <= 8 THEN BlockMix(acc, bytes)
    ELSE Compress(BlockMix(acc, SubSeq(bytes, 1, 8)), SubSeq(bytes, 9, Len(bytes)))

\* one lowercase hexadecimal digit, as a character code
HexChar(n) == IF n < 10 THEN 48 + n ELSE 87 + n

RECURSIVE ToHex(_, _)
\* digest('hex'): n as a string of exactly d lowercase hexadecimal digits
ToHex(n, d) == IF d = 0 THEN <<>> ELSE ToHex(n \div 16, d - 1) \o <<HexChar(n % 16)>>

\* crypto.createHmac('sha256', secret).update(message).digest('hex'):
\* inner hash of key and message, outer hash of key and inner hash
getHmac(secret, message) ==
    LET key == BufferFrom(secret)
        inner == Compress(54, key \o BufferFrom(message))
    IN  ToHex(Compress(92, key \o <<inner>>), HexDigits)

\* crypto.timingSafeEqual: a RangeError when the byte lengths differ
timingSafeEqual(a, b) ==
    IF Len(a) # Len(b) THEN [threw |-> TRUE, value |-> FALSE]
    ELSE [threw |-> FALSE, value |-> (a = b)]

\* verifyMessage of src/src/webhook_handler.ts: the exception becomes false
verifyMessageCaught(hmac, verifySignature) ==
    LET r == timingSafeEqual(BufferFrom(hmac), BufferFrom(verifySignature))
    IN  IF r.threw THEN [threw |-> FALSE, value |-> FALSE] ELSE r

\* verifyMessage of part_000: the exception escapes
verifyMessageBare(hmac, verifySignature) ==
    timingSafeEqual(BufferFrom(hmac), BufferFrom(verifySignature))

\* verifyMessage of the running variant
verifyMessage(b, hmac, verifySignature) ==
    IF b = "webhook_handler.ts" THEN verifyMessageCaught(hmac, verifySignature)
    ELSE verifyMessageBare(hmac, verifySignature)

\* the signed message without the timestamp
SignedMessageNoTimestamp(messageId, timestamp, body) == messageId \o body

\* const message = messageId + timestamp + body
SignedMessage(messageId, timestamp, body) == messageId \o timestamp \o body

\* const hmac = `sha256=${getHmac(secret, message)}`
ExpectedSignature(secret, messageId, timestamp, body) ==
    SigPrefix \o getHmac(secret, SignedMessage(messageId, timestamp, body))

(****************************** JSON ***************************************)
\* a parsed JSON value, with the fields the dispatcher reads; challenge is
\* None when the value has no such property, Some(string) otherwise
JsonValue(kind, hasSub, type, challenge, event) ==
    [kind |-> kind, hasSubscription |-> hasSub, type |-> type,
     challenge |-> challenge, event |-> event]

\* JSON.parse(body) on the body texts of the model; kind "error" is a SyntaxError
JSONparse(text) ==
    CASE text = TextNull -> JsonValue("null", FALSE, "", None, 0)
      [] text = TextEmptyObject -> JsonValue("object", FALSE, "", None, 0)
      [] text = TextChallenge -> JsonValue("object", FALSE, "", Some(ChallengeValue), 0)
      [] text = TextEmptyChallenge -> JsonValue("object", FALSE, "", Some(<<>>), 0)
      [] text = TextFollow -> JsonValue("object", TRUE, "channel.follow", None, 0)
      [] text = TextFollow2 -> JsonValue("object", TRUE, "channel.follow", None, 2)
      [] text = TextSubscribe -> JsonValue("object", TRUE, "channel.subscribe", None, 0)
      [] text = TextStar -> JsonValue("object", TRUE, "*", None, 0)
      [] text = TextConstructor -> JsonValue("object", TRUE, "constructor", None, 0)
      [] text = TextNoSubscription -> JsonValue("object", FALSE, "", None, 2)
      [] OTHER -> JsonValue("error", FALSE, "", None, 0)

(****************************** state **************************************)
VARIABLES
    build,          \* the variant of the dispatcher that is running
    sets,           \* the Set objects allocated by on(), in insertion order
    eventHandlers,  \* the registry Map: key -> index of its Set object in sets
    closures,       \* the unregister functions returned by on(), in call order
    called,         \* called[i]: closures[i] has been called at least once
    unregd,         \* <<key, handler>> unregistered and not registered since
    pc,             \* position of handleTwitchWebhook
    req,            \* the request being processed
    opts,           \* the options of the call
    bodyRead,       \* request.text() has been called for the request
    running,        \* the handler promises that are still pending
    calls,          \* the handler invocations made for the request, in order
    failed,         \* some handler invoked for the request threw or rejected
    group,          \* the array made by Array.from(set) for the stage in progress
    idx,            \* the position in group of the next handler that map calls
    result,         \* the TwitchWebhookResult returned
    thrown,         \* the exception that left handleTwitchWebhook
    ctorToken,      \* options.token of new Webhook_client(options)
    token,          \* this.token of the client
    sent,           \* the requests that the client has passed to fetch, in order
    inflight,       \* the positions in sent of the requests without response yet
    completed       \* the method calls that have returned or thrown, in order

registry == <<sets, eventHandlers, closures, called, unregd>>
dispatch == <<pc, req, opts, bodyRead, running, calls, failed, group, idx, result, thrown>>
client == <<ctorToken, token, sent, inflight, completed>>
vars == <<build, sets, eventHandlers, closures, called, unregd,
          pc, req, opts, bodyRead, running, calls, failed, group, idx, result, thrown,
          ctorToken, token, sent, inflight, completed>>

\* a TwitchWebhookResult; error and detail are the parts of the JSON error body
Response(status, contentType, error, detail, body) ==
    [status |-> status, contentType |-> contentType, error |-> error,
     detail |-> detail, body |-> body]

\* no result (the call has not returned)
NoResult == Response(0, "", "", "", <<>>)

\* no request
NoRequest ==
    [messageId |-> None, timestamp |-> None, signature |-> None,
     messageType |-> None, body |-> <<>>]

\* no options
NoOptions == [secret |-> <<>>, direct |-> {}, undef |-> {}, onUnknownEvent |-> FALSE]

\* positions inside one synchronous run of the dispatcher where no other
\* code runs (no await and no handler call in between)
Transient == {"direct", "unknown", "specific", "all"}

\* new Map()
EmptyMap == [x \in {} |-> 0]

\* no client has been constructed
Unconstructed == "<unconstructed>"

\* options.token is not given
Absent == "<absent>"

Init ==
    /\ build \in Builds
    /\ ctorToken = Unconstructed
    /\ token = "undefined"
    /\ sent = <<>>
    /\ inflight = {}
    /\ completed = <<>>
    /\ sets = <<>>
    /\ eventHandlers = EmptyMap
    /\ closures = <<>>
    /\ called = <<>>
    /\ unregd = {}
    /\ pc = "idle"
    /\ req = NoRequest
    /\ opts = NoOptions
    /\ bodyRead = FALSE
    /\ running = {}
    /\ calls = <<>>
    /\ failed = FALSE
    /\ group = <<>>
    /\ idx = 1
    /\ result = NoResult
    /\ thrown = ""

(************************** handler registry *******************************)
\* Set.prototype.add on an insertion-ordered set
SetAdd(s, h) == IF \E i \in DOMAIN s : s[i] = h THEN s ELSE Append(s, h)

\* Set.prototype.delete
SetDelete(s, h) == SelectSeq(s, LAMBDA x : x # h)

\* the members of an insertion-ordered set
Members(s) == {s[i] : i \in DOMAIN s}

\* the key is left in the map
MapDeleteNothing(m, k) == m

\* Map.prototype.delete
MapDelete(m, k) == [x \in (DOMAIN m) \ {k} |-> m[x]]

\* Map.prototype.set
MapSet(m, k, v) == [x \in (DOMAIN m) \cup {k} |-> IF x = k THEN v ELSE m[x]]

\* eventHandlers.get(key): the handlers of the key, in order; <<>> if no key
Lookup(key) ==
    IF key \in DOMAIN eventHandlers THEN sets[eventHandlers[key]] ELSE <<>>

\* the registry as its users see it: key -> set of handlers
Registry == [k \in DOMAIN eventHandlers |-> Members(sets[eventHandlers[k]])]

\* on(eventType, handler)
On(eventType, handler) ==
    /\ pc \notin Transient
    /\ Len(closures) < MaxOn
    /\ eventType \in DOMAIN eventHandlers \/ Len(sets) < MaxSets
    /\ LET fresh == eventType \notin DOMAIN eventHandlers
           id == IF fresh THEN Len(sets) + 1 ELSE eventHandlers[eventType]
           withSet == IF fresh THEN Append(sets, <<>>) ELSE sets
       IN  /\ eventHandlers' =
                 IF fresh THEN MapSet(eventHandlers, eventType, id)
                 ELSE eventHandlers
           /\ sets' = [withSet EXCEPT ![id] = SetAdd(@, handler)]
           /\ closures' = Append(closures,
                 [set |-> id, handler |-> handler, eventType |-> eventType])
    /\ called' = Append(called, FALSE)
    /\ unregd' = unregd \ {<<eventType, handler>>}
    /\ UNCHANGED <<build, client, dispatch>>

\* the dispatcher iterates over the Set itself: a handler removed under the
\* key of the group that is being started is no longer part of the group
UnregisterSeenByGroup(i) ==
    /\ pc \notin Transient
    /\ i \in DOMAIN closures
    /\ LET c == closures[i]
           emptied == SetDelete(sets[c.set], c.handler) = <<>>
       IN  /\ sets' = [sets EXCEPT ![c.set] = SetDelete(@, c.handler)]
           /\ eventHandlers' =
                 IF emptied THEN MapDelete(eventHandlers, c.eventType)
                 ELSE eventHandlers
           /\ unregd' = unregd \cup {<<c.eventType, c.handler>>}
           /\ group' = IF /\ pc \in {"mapSpecific", "mapAll"}
                          /\ c.eventType = (IF pc = "mapAll" THEN Wildcard
                                            ELSE JSONparse(req.body).type)
                       THEN SetDelete(group, c.handler)
                       ELSE group
    /\ called' = [called EXCEPT ![i] = TRUE]
    /\ UNCHANGED <<build, client, closures, pc, req, opts, bodyRead, running, calls,
                   failed, idx, result, thrown>>

\* the closure returned by on(): handlers.delete(handler), then
\* eventHandlers.delete(eventType) if the captured Set is empty
Unregister(i) ==
    /\ pc \notin Transient
    /\ i \in DOMAIN closures
    /\ LET c == closures[i]
           emptied == SetDelete(sets[c.set], c.handler) = <<>>
       IN  /\ sets' = [sets EXCEPT ![c.set] = SetDelete(@, c.handler)]
           /\ eventHandlers' =
                 IF emptied THEN MapDelete(eventHandlers, c.eventType)
                 ELSE eventHandlers
           /\ unregd' = unregd \cup {<<c.eventType, c.handler>>}
    /\ called' = [called EXCEPT ![i] = TRUE]
    /\ UNCHANGED <<build, client, closures, dispatch>>

(************************** webhook dispatcher *****************************)
\* !header for a header whose value is a string of character codes
FalsyHeader(h) == h = None \/ h[1] = <<>>

\* !messageType
FalsyType(h) == h = None \/ h[1] = ""

\* the properties that the handlers object inherits from Object.prototype
\* (one of them stands for all)
ObjectPrototypeKeys == {"constructor"}

\* `eventType in handlers`: the own keys of the handlers object (direct: the
\* keys whose value is a function, undef: the keys whose value is undefined)
\* and the inherited ones
InHandlers(o, eventType) ==
    \/ eventType \in o.direct \cup o.undef
    \/ (o.onUnknownEvent /\ eventType = "onUnknownEvent")
    \/ eventType \in ObjectPrototypeKeys

\* handlers[eventType]: the function under that key, named by the key;
\* "Object" is Object.prototype.constructor
HandlerAt(o, eventType) ==
    CASE eventType \in o.direct -> eventType
      [] eventType \in o.undef -> "undefined"
      [] o.onUnknownEvent /\ eventType = "onUnknownEvent" -> "onUnknownEvent"
      [] eventType \in ObjectPrototypeKeys -> "Object"
      [] OTHER -> "undefined"

\* an outcome of the synchronous checks: a response, an exception, or dispatch
\* (text is whether request.text() was called on the way)
Respond(r) == [kind |-> "respond", result |-> r, error |-> "", text |-> TRUE]
Throw(e) == [kind |-> "throw", result |-> NoResult, error |-> e, text |-> TRUE]
Notify == [kind |-> "notify", result |-> NoResult, error |-> "", text |-> TRUE]

\* a return that precedes `const body = await request.text()`
RespondEarly(r) == [Respond(r) EXCEPT !.text = FALSE]

\* case 'notification' up to the read of notification.subscription.type
NotificationCase(bodyJson) ==
    IF bodyJson.kind = "null" \/ ~bodyJson.hasSubscription
    THEN Throw("TypeError")
    ELSE Notify

\* !challenge: undefined or the empty string
FalsyChallenge(c) == c = None \/ c[1] = <<>>

\* the challenge is returned without the content-type header
VerificationCaseNoContentType(bodyJson) ==
    IF bodyJson.kind = "null" THEN Throw("TypeError")
    ELSE IF FalsyChallenge(bodyJson.challenge)
    THEN Respond(Response(400, "", "Missing challenge in verification request",
                          "", <<>>))
    ELSE Respond(Response(200, "", "", "", bodyJson.challenge[1]))

\* case 'webhook_callback_verification'
VerificationCase(bodyJson) ==
    IF bodyJson.kind = "null" THEN Throw("TypeError")
    ELSE IF FalsyChallenge(bodyJson.challenge)
    THEN Respond(Response(400, "", "Missing challenge in verification request",
                          "", <<>>))
    ELSE Respond(Response(200, "text/plain", "", "", bodyJson.challenge[1]))

\* the error does not carry the message type
DefaultCaseNoType(messageType) ==
    Respond(Response(400, "", "Invalid message type: ", "", <<>>))

\* default case
DefaultCase(messageType) ==
    Respond(Response(400, "", "Invalid message type: ", messageType, <<>>))

\* case "revocation" (part_000 only)
RevocationCase == Respond(Response(204, "", "", "", <<>>))

\* switch (messageType) of the running variant
MessageTypeSwitch(b, messageType, bodyJson) ==
    CASE messageType = "notification" -> NotificationCase(bodyJson)
      [] messageType = "webhook_callback_verification" ->
            VerificationCase(bodyJson)
      [] messageType = "revocation" /\ b = "part_000" -> RevocationCase
      [] OTHER -> DefaultCase(messageType)

\* the result of the comparison is not used
SignatureCheckIgnored(b, r, secret, bodyJson) ==
    LET hmac == ExpectedSignature(secret, r.messageId[1], r.timestamp[1], r.body)
        v == verifyMessage(b, hmac, r.signature[1])
    IN  IF v.threw THEN Throw("RangeError")
        ELSE MessageTypeSwitch(b, r.messageType[1], bodyJson)

\* the signature check and what follows it
SignatureCheck(b, r, secret, bodyJson) ==
    LET hmac == ExpectedSignature(secret, r.messageId[1], r.timestamp[1], r.body)
        v == verifyMessage(b, hmac, r.signature[1])
    IN  IF v.threw THEN Throw("RangeError")
        ELSE IF ~v.value
        THEN Respond(Response(401, "", "Invalid signature", "", <<>>))
        ELSE MessageTypeSwitch(b, r.messageType[1], bodyJson)

\* the error texts of the three header checks
MissingIdOrTimestamp ==
    "Missing required headers \"twitch-eventsub-message-id\" or \"twitch-eventsub-message-timestamp\""
MissingSignature == "Missing required header \"twitch-eventsub-message-signature\""
MissingMessageType == "Missing required header \"twitch-eventsub-message-type\""

\* request.text() and JSON.parse, then the signature check
ReadBody(b, r, secret) ==
    IF JSONparse(r.body).kind = "error"
    THEN Respond(Response(400, "", "Invalid JSON body", "", <<>>))
    ELSE SignatureCheck(b, r, secret, JSONparse(r.body))

\* the signature header is looked at before the id and the timestamp
ValidateSignatureFirst(b, r, secret) ==
    IF FalsyHeader(r.signature)
    THEN RespondEarly(Response(400, "", MissingSignature, "", <<>>))
    ELSE IF FalsyHeader(r.messageId) \/ FalsyHeader(r.timestamp)
    THEN RespondEarly(Response(400, "", MissingIdOrTimestamp, "", <<>>))
    ELSE IF FalsyType(r.messageType)
    THEN RespondEarly(Response(400, "", MissingMessageType, "", <<>>))
    ELSE ReadBody(b, r, secret)

\* handleTwitchWebhook from its first line to the message-type switch
Validate(b, r, secret) ==
    IF FalsyHeader(r.messageId) \/ FalsyHeader(r.timestamp)
    THEN RespondEarly(Response(400, "", MissingIdOrTimestamp, "", <<>>))
    ELSE IF FalsyHeader(r.signature)
    THEN RespondEarly(Response(400, "", MissingSignature, "", <<>>))
    ELSE IF FalsyType(r.messageType)
    THEN RespondEarly(Response(400, "", MissingMessageType, "", <<>>))
    ELSE ReadBody(b, r, secret)

\* const notification = bodyJson
notification == JSONparse(req.body)

\* const eventType = notification.subscription.type
eventType == notification.type

\* what a handler call does: return a value, throw, or return a pending promise
Behaviours == {"sync", "syncThrow", "async"}

\* one handler invocation
Call(via, handler) == [via |-> via, handler |-> handler, arg |-> notification]

\* handleTwitchWebhook(request, options) up to the first handler stage
Begin(r, o) ==
    /\ pc = "idle"
    /\ req' = r
    /\ opts' = o
    /\ running' = {}
    /\ calls' = <<>>
    /\ failed' = FALSE
    /\ group' = <<>>
    /\ idx' = 1
    /\ LET out == Validate(build, r, o.secret)
       IN  /\ pc' = CASE out.kind = "respond" -> "done"
                      [] out.kind = "throw" -> "threw"
                      [] OTHER -> "direct"
           /\ result' = out.result
           /\ thrown' = out.error
           /\ bodyRead' = out.text
    /\ UNCHANGED <<build, client, registry>>

\* await of one handler (direct or onUnknownEvent) called with behaviour b
InvokeOne(via, handler, b, awaitPc) ==
    /\ calls' = Append(calls, Call(via, handler))
    /\ IF b = "syncThrow"
       THEN /\ pc' = "threw"
            /\ thrown' = "HandlerError"
            /\ failed' = TRUE
            /\ running' = running
       ELSE /\ pc' = awaitPc
            /\ thrown' = thrown
            /\ failed' = failed
            /\ running' = IF b = "async" THEN {Call(via, handler)} ELSE {}
    /\ UNCHANGED <<build, client, registry, req, opts, bodyRead, result, group, idx>>

\* skip a stage that invokes nothing
Skip(nextPc) ==
    /\ pc' = nextPc
    /\ UNCHANGED <<build, client, registry, req, opts, bodyRead, running, calls, failed,
                   result, thrown, group, idx>>

\* what a call of the function does: Object(notification) returns its argument
BehavioursOf(handler) == IF handler = "Object" THEN {"sync"} ELSE Behaviours

\* if (eventType in handlers) { handler = handlers[eventType]; if (handler) await ... }
Direct ==
    /\ pc = "direct"
    /\ IF InHandlers(opts, eventType) /\ HandlerAt(opts, eventType) # "undefined"
       THEN \E b \in BehavioursOf(HandlerAt(opts, eventType)) :
               InvokeOne("direct", HandlerAt(opts, eventType), b, "awaitDirect")
       ELSE Skip("unknown")

\* the fallback is called whenever it was supplied
UnknownAlways ==
    /\ pc = "unknown"
    /\ IF opts.onUnknownEvent
       THEN \E b \in Behaviours :
               InvokeOne("unknown", "onUnknownEvent", b, "awaitUnknown")
       ELSE Skip("specific")

\* if (!(eventType in handlers) && handlers.onUnknownEvent) await ...
Unknown ==
    /\ pc = "unknown"
    /\ IF ~InHandlers(opts, eventType) /\ opts.onUnknownEvent
       THEN \E b \in Behaviours :
               InvokeOne("unknown", "onUnknownEvent", b, "awaitUnknown")
       ELSE Skip("specific")

\* positions between two handler calls of one Array.from(set).map(...)
MapStates == {"mapSpecific", "mapAll"}

\* the map stops after the handler it has just called
CallAtFirstOnly(via, hs, i, b, mapPc, awaitPc) ==
    /\ calls' = Append(calls, Call(via, hs[i]))
    /\ group' = hs
    /\ idx' = i + 1
    /\ pc' = IF b = "syncThrow" THEN "threw" ELSE awaitPc
    /\ thrown' = IF b = "syncThrow" THEN "HandlerError" ELSE thrown
    /\ failed' = (failed \/ b = "syncThrow")
    /\ running' = IF b = "async" THEN running \cup {Call(via, hs[i])} ELSE running
    /\ UNCHANGED <<build, client, registry, req, opts, bodyRead, result>>

\* handler => Promise.resolve(handler(notification)) applied to the i-th
\* element of the array hs made by Array.from(set); a synchronous throw ends
\* the map and the call of the dispatcher
CallAt(via, hs, i, b, mapPc, awaitPc) ==
    /\ calls' = Append(calls, Call(via, hs[i]))
    /\ group' = hs
    /\ IF b = "syncThrow"
       THEN /\ pc' = "threw"
            /\ thrown' = "HandlerError"
            /\ failed' = TRUE
            /\ idx' = i
            /\ running' = running
       ELSE /\ pc' = IF i = Len(hs) THEN awaitPc ELSE mapPc
            /\ thrown' = thrown
            /\ failed' = failed
            /\ idx' = i + 1
            /\ running' = IF b = "async" THEN running \cup {Call(via, hs[i])}
                          ELSE running
    /\ UNCHANGED <<build, client, registry, req, opts, bodyRead, result>>

\* await Promise.all(Array.from(set).map(...)): the array is made and its
\* first handler is called
StartGroup(via, hs, mapPc, awaitPc) ==
    IF hs = <<>>
    THEN /\ pc' = awaitPc
         /\ group' = hs
         /\ idx' = 1
         /\ UNCHANGED <<build, client, registry, req, opts, bodyRead, running, calls, failed,
                        result, thrown>>
    ELSE \E b \in Behaviours : CallAt(via, hs, 1, b, mapPc, awaitPc)

\* the next handler is called only when the handlers called before it have
\* completed (a loop that awaits each handler)
MapNextSequential ==
    /\ pc \in MapStates
    /\ running = {}
    /\ \E b \in Behaviours :
          IF pc = "mapSpecific"
          THEN CallAt("specific", group, idx, b, "mapSpecific", "awaitSpecific")
          ELSE CallAt("all", group, idx, b, "mapAll", "awaitAll")

\* the map calls the next handler of the array
MapNext ==
    /\ pc \in MapStates
    /\ \E b \in Behaviours :
          IF pc = "mapSpecific"
          THEN CallAt("specific", group, idx, b, "mapSpecific", "awaitSpecific")
          ELSE CallAt("all", group, idx, b, "mapAll", "awaitAll")

\* the type-specific stage reads the set of some key of the map, not of eventType
SpecificAnyKey ==
    /\ pc = "specific"
    /\ IF DOMAIN eventHandlers # {}
       THEN \E k \in DOMAIN eventHandlers :
               StartGroup("specific", Lookup(k), "mapSpecific", "awaitSpecific")
       ELSE Skip("all")

\* const specificHandlers = eventHandlers.get(eventType); if (specificHandlers) ...
Specific ==
    /\ pc = "specific"
    /\ IF eventType \in DOMAIN eventHandlers
       THEN StartGroup("specific", Lookup(eventType), "mapSpecific", "awaitSpecific")
       ELSE Skip("all")

\* the registry is emptied when the notification has been dispatched
Return204Clearing ==
    /\ pc' = "done"
    /\ result' = Response(204, "", "", "", <<>>)
    /\ eventHandlers' = EmptyMap
    /\ UNCHANGED <<build, client, sets, closures, called, unregd, req, opts, bodyRead,
                   running, calls, failed, thrown, group, idx>>

\* return { status: 204 }
Return204 ==
    /\ pc' = "done"
    /\ result' = Response(204, "", "", "", <<>>)
    /\ UNCHANGED <<build, client, registry, req, opts, bodyRead, running, calls, failed, thrown,
                   group, idx>>

\* the wildcard handlers are called only when the event type has no handlers
AllInsteadOf ==
    /\ pc = "all"
    /\ IF Wildcard \in DOMAIN eventHandlers /\ eventType \notin DOMAIN eventHandlers
       THEN StartGroup("all", Lookup(Wildcard), "mapAll", "awaitAll")
       ELSE Return204

\* const allHandlers = eventHandlers.get('*'); if (allHandlers) ...
All ==
    /\ pc = "all"
    /\ IF Wildcard \in DOMAIN eventHandlers
       THEN StartGroup("all", Lookup(Wildcard), "mapAll", "awaitAll")
       ELSE Return204

\* the dispatcher goes on without waiting for the pending promises
ResumeEarly ==
    /\ pc \in {"awaitDirect", "awaitUnknown", "awaitSpecific", "awaitAll"}
    /\ IF pc = "awaitAll" THEN Return204
       ELSE Skip(CASE pc = "awaitDirect" -> "unknown"
                   [] pc = "awaitUnknown" -> "specific"
                   [] OTHER -> "all")

\* an awaited promise is fulfilled: the dispatcher goes on
Resume ==
    /\ pc \in {"awaitDirect", "awaitUnknown", "awaitSpecific", "awaitAll"}
    /\ running = {}
    /\ IF pc = "awaitAll" THEN Return204
       ELSE Skip(CASE pc = "awaitDirect" -> "unknown"
                   [] pc = "awaitUnknown" -> "specific"
                   [] OTHER -> "all")

\* a pending handler promise is fulfilled
Complete(c) ==
    /\ pc \notin Transient \cup MapStates
    /\ c \in running
    /\ running' = running \ {c}
    /\ UNCHANGED <<build, client, registry, pc, req, opts, bodyRead, calls, failed, result, thrown,
                   group, idx>>

\* the rejection is swallowed and the dispatcher waits for the other promises
RejectCaught(c) ==
    /\ pc \notin Transient \cup MapStates
    /\ c \in running
    /\ running' = running \ {c}
    /\ failed' = TRUE
    /\ UNCHANGED <<build, client, registry, pc, req, opts, bodyRead, calls, result, thrown,
                   group, idx>>

\* a pending handler promise is rejected: the await of the dispatcher throws
Reject(c) ==
    /\ pc \notin Transient \cup MapStates
    /\ c \in running
    /\ running' = running \ {c}
    /\ failed' = TRUE
    /\ IF pc \in {"awaitDirect", "awaitUnknown", "awaitSpecific", "awaitAll"}
       THEN pc' = "threw" /\ thrown' = "HandlerError"
       ELSE UNCHANGED <<pc, thrown>>
    /\ UNCHANGED <<build, client, registry, req, opts, bodyRead, calls, result, group, idx>>

\* the caller takes the result (or the exception) of the call; the next
\* request can be processed
Reply ==
    /\ pc \in {"done", "threw"}
    /\ pc' = "idle"
    /\ req' = NoRequest
    /\ opts' = NoOptions
    /\ bodyRead' = FALSE
    /\ running' = {}
    /\ calls' = <<>>
    /\ failed' = FALSE
    /\ result' = NoResult
    /\ thrown' = ""
    /\ group' = <<>>
    /\ idx' = 1
    /\ UNCHANGED <<build, client, registry>>
(************************** subscription client ****************************)
\* the response bodies of the remote API: two token responses, a JSON error
\* body, a body that is not JSON
BodyToken1 == "{\"access_token\":\"tok1\"}"
BodyToken2 == "{\"access_token\":\"tok2\"}"
BodyError == "{\"error\":\"Unauthorized\"}"
BodyHtml == "<html>Bad Gateway</html>"
ResponseBodies == {BodyToken1, BodyToken2, BodyError, BodyHtml}

\* a JavaScript value that a method returns or reads: undefined, a string,
\* or the object parsed from a JSON text
JsUndefined == [kind |-> "undefined", text |-> ""]
JsString(s) == [kind |-> "string", text |-> s]
JsObject(text) == [kind |-> "object", text |-> text]

\* Response.json(): the parsed body, or a SyntaxError
ResponseJson(body) ==
    IF body = BodyHtml THEN [threw |-> TRUE, value |-> JsUndefined]
    ELSE [threw |-> FALSE, value |-> JsObject(body)]

\* json.access_token, written as it appears after `Bearer `
AccessToken(json) ==
    CASE json.text = BodyToken1 -> "tok1"
      [] json.text = BodyToken2 -> "tok2"
      [] OTHER -> "undefined"

\* a || b for two strings, where Absent stands for undefined
OrElse(a, b) == IF a = Absent \/ a = "" THEN b ELSE a

\* the tokens given to the constructor: none, the empty string, a token
CtorTokens == {Absent, "", "ctor"}

\* the user tokens given to subscribe: none, a token
UserTokens == {Absent, "user"}

\* the HTTP responses: ok or not, with any body
Responses == [ok : BOOLEAN, body : ResponseBodies]

\* constructor(options)
Construct(t) ==
    /\ ctorToken = Unconstructed
    /\ ctorToken' = t
    /\ token' = OrElse(t, "INVALID_TOKEN")
    /\ UNCHANGED <<build, registry, dispatch, sent, inflight, completed>>

\* a method passes its request to fetch and waits for the response
Fetch(method, bearer, userToken) ==
    /\ ctorToken # Unconstructed
    /\ Len(sent) < MaxClientCalls
    /\ sent' = Append(sent, [method |-> method, bearer |-> bearer,
                             userToken |-> userToken])
    /\ inflight' = inflight \cup {Len(sent) + 1}
    /\ UNCHANGED <<build, registry, dispatch, ctorToken, token, completed>>

\* auth() up to the await of fetch: no Authorization header
AuthCall == Fetch("auth", Absent, Absent)

\* subscribe(event, condition, userToken) up to the await of fetch
SubscribeCall(userToken) == Fetch("subscribe", OrElse(userToken, token), userToken)

\* unsubscribe(subscription_id) up to the await of fetch
UnsubscribeCall == Fetch("unsubscribe", token, Absent)

\* get_subscriptions() up to the await of fetch
GetSubscriptionsCall == Fetch("get_subscriptions", token, Absent)

\* the end of a method call: it returns a value or throws
Settle(i, r, kind, value) ==
    /\ inflight' = inflight \ {i}
    /\ completed' = Append(completed,
          [call |-> i, method |-> sent[i].method, ok |-> r.ok, body |-> r.body,
           kind |-> kind, value |-> value])
    /\ UNCHANGED <<build, registry, dispatch, ctorToken, sent>>

\* the token of the response is not stored
AuthResponseNotStored(i, r) ==
    /\ i \in inflight
    /\ sent[i].method = "auth"
    /\ LET json == ResponseJson(r.body)
       IN  IF json.threw
           THEN Settle(i, r, "throw", JsString("SyntaxError")) /\ token' = token
           ELSE IF ~r.ok
           THEN Settle(i, r, "return", JsUndefined) /\ token' = token
           ELSE /\ token' = token
                /\ Settle(i, r, "return", JsString(AccessToken(json.value)))

\* auth() after the response: json(), the ok test, this.token = json.access_token
AuthResponse(i, r) ==
    /\ i \in inflight
    /\ sent[i].method = "auth"
    /\ LET json == ResponseJson(r.body)
       IN  IF json.threw
           THEN Settle(i, r, "throw", JsString("SyntaxError")) /\ token' = token
           ELSE IF ~r.ok
           THEN Settle(i, r, "return", JsUndefined) /\ token' = token
           ELSE /\ token' = AccessToken(json.value)
                /\ Settle(i, r, "return", JsString(AccessToken(json.value)))

\* subscribe() after the response: json() on both branches
SubscribeResponse(i, r) ==
    /\ i \in inflight
    /\ sent[i].method = "subscribe"
    /\ token' = token
    /\ LET json == ResponseJson(r.body)
       IN  IF json.threw THEN Settle(i, r, "throw", JsString("SyntaxError"))
           ELSE IF ~r.ok THEN Settle(i, r, "return", JsUndefined)
           ELSE Settle(i, r, "return", json.value)

\* unsubscribe() after the response: the body is not read
UnsubscribeResponse(i, r) ==
    /\ i \in inflight
    /\ sent[i].method = "unsubscribe"
    /\ token' = token
    /\ Settle(i, r, "return", JsUndefined)

\* get_subscriptions() after the response: json() whatever the status is
GetSubscriptionsResponse(i, r) ==
    /\ i \in inflight
    /\ sent[i].method = "get_subscriptions"
    /\ token' = token
    /\ LET json == ResponseJson(r.body)
       IN  IF json.threw THEN Settle(i, r, "throw", JsString("SyntaxError"))
           ELSE Settle(i, r, "return", json.value)


(***************************** requests ************************************)
\* the secrets of the model: "s" and "k"
Secrets == {<<115>>, <<107>>}
\* message ids: absent, empty, "m1"
MessageIds == {None, Some(<<>>), Some(<<109, 49>>)}
\* timestamps: absent, empty, "t1"
Timestamps == {None, Some(<<>>), Some(<<116, 49>>)}
\* message types: absent, empty, the three of EventSub, an unrecognised one
MessageTypes ==
    {None, Some(""), Some("notification"), Some("webhook_callback_verification"),
     Some("revocation"), Some("bogus")}
\* body texts
Bodies ==
    {TextBadJson, TextNull, TextEmptyObject, TextChallenge, TextEmptyChallenge,
     TextFollow, TextFollow2, TextSubscribe, TextStar, TextNoSubscription}
\* characters written over one character of a signature: "x" and U+00E9
FlipChars == {120, 233}

\* s with its i-th character replaced by c
Flip(s, i, c) == [s EXCEPT ![i] = c]

\* signature headers built from the right signature v: absent, empty, v, v
\* without its last character, v and one more character, v with one
\* character replaced
Signatures(v) ==
    {None, Some(<<>>), Some(v), Some(SubSeq(v, 1, Len(v) - 1)), Some(v \o <<48>>)}
    \cup UNION {{Some(Flip(v, i, c)) : c \in FlipChars \ {v[i]}} : i \in DOMAIN v}

\* the value of a header, or the empty string when it is absent
Value(h) == IF h = None THEN <<>> ELSE h[1]

\* the signature that the sender (Twitch) puts in the signature header
Sign(secret, messageId, timestamp, body) ==
    SigPrefix \o getHmac(secret, messageId \o timestamp \o body)

\* a request
Request(m, t, s, ty, bd) ==
    [messageId |-> m, timestamp |-> t, signature |-> s, messageType |-> ty,
     body |-> bd]

\* requests with any combination of absent, empty and present headers
HeaderRequests(secret) ==
    UNION {
      {Request(m, t, s, ty, bd) :
          s \in {None, Some(<<>>),
                 Some(Sign(secret, Value(m), Value(t), bd))},
          ty \in MessageTypes}
      : m \in MessageIds, t \in Timestamps, bd \in {TextBadJson, TextFollow}}

\* requests with id and timestamp, and any signature, message type and body
SignedRequests(secret) ==
    UNION {
      {Request(Some(<<109, 49>>), Some(<<116, 49>>), s, ty, bd) :
          s \in Signatures(Sign(secret, <<109, 49>>, <<116, 49>>, bd)),
          ty \in MessageTypes}
      : bd \in Bodies}

\* the requests of Spec, by secret
Requests == [secret \in Secrets |-> HeaderRequests(secret) \cup SignedRequests(secret)]

\* the options of the calls of Spec
Options ==
    [secret : Secrets, direct : {{}, {"channel.follow"}}, undef : {{}},
     onUnknownEvent : {TRUE}]

\* well-signed notifications, by secret
Notifications ==
    [secret \in Secrets |->
    {Request(Some(<<109, 49>>), Some(<<116, 49>>),
             Some(Sign(secret, <<109, 49>>, <<116, 49>>, bd)),
             Some("notification"), bd) :
        bd \in {TextFollow, TextFollow2, TextSubscribe, TextStar, TextConstructor}}]

\* the options of the calls of SpecDispatch
DispatchOptions ==
    [secret : {<<115>>}, direct : SUBSET {"channel.follow"}, undef : {{}},
     onUnknownEvent : BOOLEAN]
    \cup {[secret |-> <<115>>, direct |-> {}, undef |-> {"channel.follow"},
           onUnknownEvent |-> TRUE]}

\* the registrations of SpecDispatch: h1 under any key, h2 under the keys
\* that a follow notification reads
DispatchRegistrations ==
    {<<k, "h1">> : k \in EventKeys} \cup {<<k, "h2">> : k \in {"channel.follow", Wildcard}}

(**************************** specifications *******************************)
\* the steps of the dispatcher after Begin
Steps ==
    \/ Direct
    \/ Unknown
    \/ Specific
    \/ MapNext
    \/ All
    \/ Resume
    \/ \E c \in running : Complete(c)
    \/ \E c \in running : Reject(c)
    \/ Reply

\* any request, a small registry that grows between two requests
Next ==
    \/ pc = "idle" /\ Len(closures) < MaxOnWebhook /\ \E h \in Handlers : On("channel.follow", h)
    \/ pc = "idle" /\ \E o \in Options : \E r \in Requests[o.secret] : Begin(r, o)
    \/ Steps

Spec == Init /\ [][Next]_vars

\* well-signed notifications, a registry of two handlers
NextDispatch ==
    \/ Len(closures) < MaxOnDispatch /\ \E kh \in DispatchRegistrations : On(kh[1], kh[2])
    \/ \E i \in 1..MaxOn : Unregister(i)
    \/ pc = "idle" /\ \E o \in DispatchOptions : \E r \in Notifications[o.secret] : Begin(r, o)
    \/ Steps

SpecDispatch == Init /\ [][NextDispatch]_vars

\* notifications of one event type, a registry of one key that changes only
\* between two requests
NextUnsubscribe ==
    \/ pc = "idle" /\ \E h \in Handlers : On("channel.follow", h)
    \/ pc = "idle" /\ \E i \in 1..MaxOn : Unregister(i)
    \/ pc = "idle" /\ \E o \in DispatchOptions :
          Begin(Request(Some(<<109, 49>>), Some(<<116, 49>>),
                        Some(Sign(o.secret, <<109, 49>>, <<116, 49>>, TextFollow)),
                        Some("notification"), TextFollow), o)
    \/ Steps

SpecUnsubscribe == Init /\ [][NextUnsubscribe]_vars

\* the registry alone
NextRegistry ==
    \/ \E k \in EventKeys, h \in Handlers : On(k, h)
    \/ \E i \in 1..MaxOn : Unregister(i)

SpecRegistry == Init /\ [][NextRegistry]_vars

\* the subscription client alone
NextClient ==
    \/ \E t \in CtorTokens : Construct(t)
    \/ AuthCall
    \/ \E u \in UserTokens : SubscribeCall(u)
    \/ UnsubscribeCall
    \/ GetSubscriptionsCall
    \/ \E i \in 1..MaxClientCalls, r \in Responses : AuthResponse(i, r)
    \/ \E i \in 1..MaxClientCalls, r \in Responses : SubscribeResponse(i, r)
    \/ \E i \in 1..MaxClientCalls, r \in Responses : UnsubscribeResponse(i, r)
    \/ \E i \in 1..MaxClientCalls, r \in Responses : GetSubscriptionsResponse(i, r)

SpecClient == Init /\ [][NextClient]_vars

\* the notifications of SpecQuiet: a follow notification and one of type "*"
QuietNotifications ==
    [secret \in Secrets |->
    {Request(Some(<<109, 49>>), Some(<<116, 49>>),
             Some(Sign(secret, <<109, 49>>, <<116, 49>>, bd)),
             Some("notification"), bd) :
        bd \in {TextFollow, TextStar}}]

\* the steps of the dispatcher that the event loop runs by itself
Continue == Direct \/ Unknown \/ Specific \/ MapNext \/ All \/ Resume

\* some pending handler promise is fulfilled
CompleteSome == \E c \in running : Complete(c)

\* well-signed notifications, a registry under channel.follow and '*' that
\* changes only between two requests
NextQuiet ==
    \/ pc = "idle" /\ Len(closures) < MaxOnQuiet
          /\ \E k \in {"channel.follow", Wildcard}, h \in Handlers : On(k, h)
    \/ pc = "idle" /\ \E i \in 1..MaxOn : Unregister(i)
    \/ pc = "idle" /\ \E o \in DispatchOptions :
          \E r \in QuietNotifications[o.secret] : Begin(r, o)
    \/ Steps

\* the dispatcher goes on whenever it can, and every handler that has not
\* failed completes
SpecQuiet ==
    Init /\ [][NextQuiet]_vars /\ WF_vars(Continue) /\ WF_vars(CompleteSome)


(******************************* claims ************************************)
\* the call has returned or thrown
Finished == pc \in {"done", "threw"}

\* the four headers are present and not empty
AllHeaders ==
    /\ ~FalsyHeader(req.messageId)
    /\ ~FalsyHeader(req.timestamp)
    /\ ~FalsyHeader(req.signature)
    /\ ~FalsyType(req.messageType)

\* the signatures that the sender computes for the requests of the model
SenderSignature ==
    [s \in Secrets, m \in {Value(h) : h \in MessageIds},
     t \in {Value(h) : h \in Timestamps}, bd \in Bodies \cup {TextConstructor} |->
        Sign(s, m, t, bd)]

\* the signature of the request in progress, as the sender computes it
RightSignature ==
    SenderSignature[opts.secret, Value(req.messageId), Value(req.timestamp), req.body]

\* the request in progress carries the four headers and the right signature
WellSigned == AllHeaders /\ req.signature = Some(RightSignature)

\* the request in progress is a well-signed notification with an envelope
AcceptedNotification ==
    /\ WellSigned
    /\ req.messageType = Some("notification")
    /\ JSONparse(req.body).kind = "object"
    /\ JSONparse(req.body).hasSubscription

\* the positions of the calls that handler h got from stage via
CallsOf(log, via, h) ==
    {i \in DOMAIN log : log[i].via = via /\ log[i].handler = h}

\* the calls that a step adds to the log
NewCalls == {calls'[i] : i \in (Len(calls) + 1)..Len(calls')}

\* C1: a well-signed notification with a well-formed envelope is answered
\* with 204; the call ends otherwise only when an invoked handler failed.
C1_SignedNotification204 ==
    AcceptedNotification =>
        /\ pc = "done" => result.status = 204
        /\ pc = "threw" => failed

\* C1 witness: a well-signed notification was answered 204 after a handler ran
C1_Witness ==
    /\ AcceptedNotification
    /\ pc = "done"
    /\ result.status = 204
    /\ calls # <<>>
    /\ ~failed

\* the signature header has the length of the right signature and differs
\* from it in exactly one character
OneCharacterOff ==
    /\ AllHeaders
    /\ Len(req.signature[1]) = Len(RightSignature)
    /\ Cardinality({i \in DOMAIN RightSignature :
                       req.signature[1][i] # RightSignature[i]}) = 1

\* C2: with four headers and a JSON body, a signature that differs from the
\* computed one in a single character is answered 401 "Invalid signature",
\* whatever the message type.
C2_OneCharacterOff401 ==
    (Finished /\ OneCharacterOff /\ JSONparse(req.body).kind # "error") =>
        /\ pc = "done"
        /\ result.status = 401
        /\ result.error = "Invalid signature"

\* C3: a signature header whose length differs from that of the computed
\* signature is answered 401, and no exception leaves the dispatcher.
C3_OtherLength401 ==
    (/\ Finished
     /\ AllHeaders
     /\ JSONparse(req.body).kind # "error"
     /\ Len(req.signature[1]) # Len(RightSignature)) =>
        /\ pc = "done"
        /\ thrown = ""
        /\ result.status = 401

\* C4: a well-signed revocation is answered 204 whatever its JSON body is,
\* and no handler is invoked.
C4_Revocation204 ==
    (/\ Finished
     /\ WellSigned
     /\ req.messageType = Some("revocation")
     /\ JSONparse(req.body).kind # "error") =>
        /\ pc = "done"
        /\ result.status = 204
        /\ calls = <<>>

\* C5: calling an unregister function that has been called before leaves
\* the registry unchanged.
C5_SecondCallNoOp ==
    [][\A i \in DOMAIN closures :
          (called[i] /\ Unregister(i)) => Registry' = Registry]_vars

\* C6: the first call of the unregister function of register(k, h) removes
\* nothing but h under k: every other handler under k and every handler
\* under another key stays registered.
C6_RemovesOnlyItsHandler ==
    [][\A i \in DOMAIN closures :
          (~called[i] /\ Unregister(i)) =>
              \A k \in DOMAIN Registry : \A h \in Registry[k] :
                  <<k, h>> # <<closures[i].eventType, closures[i].handler>> =>
                      /\ k \in DOMAIN Registry'
                      /\ h \in Registry'[k]]_vars

KeyOf(c) == IF c.via = "specific" THEN eventType ELSE Wildcard

\* C9: once the unregister function of (k, h) has been called and h has not
\* been registered under k since, no later stage invokes h through key k.
C9_NotInvokedAfterUnregister ==
    [][\A c \in NewCalls :
          c.via \in {"specific", "all"} => <<KeyOf(c), c.handler>> \notin unregd]_vars

\* C10 as stated: a registry stage invokes a handler for a notification of
\* type t only if the handler is, when it is invoked, registered under t
\* (type-specific stage) or under '*' (wildcard stage).
C10_OnlyRegisteredInvoked ==
    [][\A c \in NewCalls :
          /\ c.via = "specific" => c.handler \in Members(Lookup(eventType))
          /\ c.via = "all" => c.handler \in Members(Lookup(Wildcard))]_vars

\* C10 amended: a registry stage invokes only handlers of its array, and the
\* array holds the handlers registered under t (type-specific stage) or
\* under '*' (wildcard stage) when the stage started.
C10_RegisteredAtStageStart ==
    /\ [][\A c \in NewCalls :
             c.via \in {"specific", "all"} => c.handler \in Members(group')]_vars
    /\ [][(pc = "specific" /\ pc' # "all") => group' = Lookup(eventType)]_vars
    /\ [][(pc = "all" /\ pc' # "done") => group' = Lookup(Wildcard)]_vars
    /\ [][(pc \in MapStates) => (group = group')]_vars

\* C10 witness: h1 is registered under channel.subscribe only, and a follow
\* notification was answered 204 with h2 called and h1 not called
C10_Witness ==
    /\ AcceptedNotification
    /\ pc = "done"
    /\ result.status = 204
    /\ eventType = "channel.follow"
    /\ "h1" \in Members(Lookup("channel.subscribe"))
    /\ "h1" \notin Members(Lookup("channel.follow")) \cup Members(Lookup(Wildcard))
    /\ \E i \in DOMAIN calls : calls[i].handler = "h2"
    /\ \A i \in DOMAIN calls : calls[i].handler # "h1"

\* C11: the header checks are ordered. A request without message id or
\* without timestamp is answered 400 with the id/timestamp error whatever its
\* other headers are; with both and without signature header, 400 with the
\* signature-header error; with the three and without message-type header,
\* 400 with the message-type error. The three errors differ, the body is not
\* read and no handler is invoked.
C11_HeaderChecksOrdered ==
    /\ Cardinality({MissingIdOrTimestamp, MissingSignature, MissingMessageType}) = 3
    /\ (Finished /\ (req.messageId = None \/ req.timestamp = None)) =>
          /\ pc = "done"
          /\ result = Response(400, "", MissingIdOrTimestamp, "", <<>>)
          /\ ~bodyRead
          /\ calls = <<>>
    /\ (/\ Finished
        /\ ~FalsyHeader(req.messageId)
        /\ ~FalsyHeader(req.timestamp)
        /\ req.signature = None) =>
          /\ pc = "done"
          /\ result = Response(400, "", MissingSignature, "", <<>>)
          /\ ~bodyRead
          /\ calls = <<>>
    /\ (/\ Finished
        /\ ~FalsyHeader(req.messageId)
        /\ ~FalsyHeader(req.timestamp)
        /\ ~FalsyHeader(req.signature)
        /\ req.messageType = None) =>
          /\ pc = "done"
          /\ result = Response(400, "", MissingMessageType, "", <<>>)
          /\ ~bodyRead
          /\ calls = <<>>

\* C11 witness: a request without message id and without signature header
\* was answered with the id/timestamp error
C11_Witness ==
    /\ pc = "done"
    /\ req.messageId = None
    /\ req.signature = None
    /\ req.timestamp # None
    /\ result.status = 400
    /\ result.error = MissingIdOrTimestamp
    /\ ~bodyRead

\* the request in progress is a well-signed verification request whose body
\* parses
SignedVerification ==
    /\ WellSigned
    /\ req.messageType = Some("webhook_callback_verification")
    /\ JSONparse(req.body).kind # "error"

\* C12 as stated: a well-signed verification request whose body holds a
\* challenge string c is answered exactly with status 200, content-type
\* text/plain and body c.
C12_ChallengeEchoed ==
    (/\ Finished
     /\ SignedVerification
     /\ JSONparse(req.body).challenge # None) =>
        /\ pc = "done"
        /\ result = Response(200, "text/plain", "", "", JSONparse(req.body).challenge[1])

\* C12 amended: a well-signed verification request whose body holds a
\* challenge string c that is not empty is answered exactly with status 200,
\* content-type text/plain and body c.
C12_NonEmptyChallengeEchoed ==
    (/\ Finished
     /\ SignedVerification
     /\ ~FalsyChallenge(JSONparse(req.body).challenge)) =>
        /\ pc = "done"
        /\ result = Response(200, "text/plain", "", "", JSONparse(req.body).challenge[1])

\* C12 witness: the challenge abc123 was answered with 200 and abc123
C12_Witness ==
    /\ SignedVerification
    /\ req.body = TextChallenge
    /\ pc = "done"
    /\ result.status = 200
    /\ result.contentType = "text/plain"
    /\ result.body = ChallengeValue

\* C13: a well-signed verification request whose parsed body has no
\* challenge is answered 400 with the missing-challenge error, and no 200
\* is returned for a body without challenge.
C13_MissingChallenge400 ==
    /\ (/\ Finished
        /\ SignedVerification
        /\ JSONparse(req.body).challenge = None) =>
          /\ pc = "done"
          /\ result.status = 400
          /\ result.error = "Missing challenge in verification request"
    /\ (pc = "done" /\ result.status = 200) =>
          JSONparse(req.body).challenge # None

\* the message types of EventSub
KnownMessageTypes == {"notification", "webhook_callback_verification", "revocation"}

\* C14 as stated: a request that carries the right signature and a
\* message-type header that is none of notification,
\* webhook_callback_verification and revocation is answered 400 with an
\* error that carries the received value, and no handler is invoked.
C14_UnknownMessageType400 ==
    (/\ Finished
     /\ WellSigned
     /\ req.messageType[1] \notin KnownMessageTypes) =>
        /\ pc = "done"
        /\ result = Response(400, "", "Invalid message type: ", req.messageType[1], <<>>)
        /\ calls = <<>>

\* C14 amended: a request that carries the right signature over a body that
\* parses as JSON and a message-type header that is none of the three is
\* answered 400 with the error "Invalid message type: " followed by the
\* received value, and no handler is invoked.
C14_UnknownMessageTypeOfJson400 ==
    (/\ Finished
     /\ WellSigned
     /\ JSONparse(req.body).kind # "error"
     /\ req.messageType[1] \notin KnownMessageTypes) =>
        /\ pc = "done"
        /\ result = Response(400, "", "Invalid message type: ", req.messageType[1], <<>>)
        /\ calls = <<>>

\* C14 witness: a well-signed request of message type bogus was answered
\* 400 with an error that carries bogus
C14_Witness ==
    /\ WellSigned
    /\ req.messageType = Some("bogus")
    /\ pc = "done"
    /\ result.status = 400
    /\ result.detail = "bogus"
    /\ calls = <<>>

\* the positions of the calls made by stage via
Via(via) == {i \in DOMAIN calls : calls[i].via = via}

\* the direct handler and the fallback are each called at most once and
\* never both
C16_AtMostOneOfBoth ==
    /\ Cardinality(Via("direct")) <= 1
    /\ Cardinality(Via("unknown")) <= 1
    /\ Via("direct") = {} \/ Via("unknown") = {}

Rank(via) ==
    CASE via \in {"direct", "unknown"} -> 1
      [] via = "specific" -> 2
      [] OTHER -> 3

\* C15: the dispatch of a notification is staged: first the direct handler
\* or the fallback, then the handlers of the event type, then the wildcard
\* handlers. A handler is started only after all the calls of the earlier
\* stages, none of which is still pending.
C15_StagesInOrder ==
    [][\A c \in NewCalls :
          /\ \A i \in DOMAIN calls : Rank(calls[i].via) <= Rank(c.via)
          /\ \A r \in running : Rank(r.via) >= Rank(c.via)]_vars

\* C15 witness: a notification was answered 204 after a direct handler, a
\* handler of the event type and a wildcard handler were called, in that order
C15_Witness ==
    /\ AcceptedNotification
    /\ pc = "done"
    /\ result.status = 204
    /\ Len(calls) = 3
    /\ calls[1].via = "direct"
    /\ calls[2].via = "specific"
    /\ calls[3].via = "all"

\* C17: when a handler invoked for a notification (direct, fallback, of the
\* event type or wildcard) throws or rejects, the dispatcher does not catch
\* it: the call ends with the handler's failure and not with a result, and
\* once the dispatcher has met the failure no handler is started (so none
\* of a later stage).
C17_HandlerFailurePropagates ==
    /\ [](failed => (pc = "threw" /\ thrown = "HandlerError" /\ result = NoResult))
    /\ [][(failed /\ pc' # "idle") => (failed' /\ pc' = "threw" /\ NewCalls = {})]_vars

\* C17 witness: a handler of the event type failed, the call ended with its
\* failure and the registered wildcard handler was not called
C17_Witness ==
    /\ AcceptedNotification
    /\ pc = "threw"
    /\ failed
    /\ thrown = "HandlerError"
    /\ Via("specific") # {}
    /\ Lookup(Wildcard) # <<>>
    /\ Via("all") = {}

\* the status codes of a TwitchWebhookResult
StatusCodes == {200, 204, 400, 401}

\* C18: for every request (headers present or absent, any body text, any
\* message type), when no handler fails the call returns a result whose
\* status is 200, 204, 400 or 401 and no exception leaves the dispatcher; a
\* request without a required header or with a body that is not JSON is
\* answered 400.
C18_AlwaysAResult ==
    /\ (Finished /\ ~failed) =>
          /\ pc = "done"
          /\ thrown = ""
          /\ result.status \in StatusCodes
    /\ (Finished /\ (~AllHeaders \/ JSONparse(req.body).kind = "error")) =>
          result.status = 400

\* C19: for every method of the client (subscribe, unsubscribe,
\* get_subscriptions, auth) a response with a non-success status makes the
\* call return without throwing, whatever the body of the response is:
\* subscribe returns the parsed error body or undefined, unsubscribe returns
\* nothing.
C19_NoThrowOnHttpError ==
    \A n \in DOMAIN completed :
        ~completed[n].ok =>
            /\ completed[n].kind = "return"
            /\ completed[n].method = "subscribe" =>
                  completed[n].value \in {JsUndefined, JsObject(completed[n].body)}
            /\ completed[n].method = "unsubscribe" => completed[n].value = JsUndefined

\* the auth calls that have ended with a successful exchange, in order
SuccessfulAuths ==
    SelectSeq(completed, LAMBDA c : c.method = "auth" /\ c.ok /\ c.kind = "return")

\* the token that the claim expects the client to work with: the
\* access_token of the last successful exchange, or else the token given to
\* the constructor, or else (none given, the empty string included)
\* "INVALID_TOKEN"
ExpectedToken ==
    IF SuccessfulAuths # <<>>
    THEN AccessToken(JsObject(SuccessfulAuths[Len(SuccessfulAuths)].body))
    ELSE IF ctorToken \in {Absent, ""} THEN "INVALID_TOKEN" ELSE ctorToken

\* the requests that a step passes to fetch
NewRequests == {sent'[i] : i \in (Len(sent) + 1)..Len(sent')}

\* C20: a successful auth exchange stores the returned access_token as the
\* working token; every later unsubscribe or get_subscriptions call, and
\* every later subscribe call without user token, sends it as the bearer; an
\* auth exchange that fails leaves the working token as it was (the token of
\* the constructor or "INVALID_TOKEN" as long as no exchange has succeeded).
C20_WorkingToken ==
    /\ [](ctorToken # Unconstructed => token = ExpectedToken)
    /\ [][\A s \in NewRequests :
             (s.method \in {"unsubscribe", "get_subscriptions"}
              \/ (s.method = "subscribe" /\ s.userToken = Absent)) =>
                 s.bearer = ExpectedToken]_vars
    /\ [][(/\ Len(completed') > Len(completed)
           /\ completed'[Len(completed')].method = "auth"
           /\ ~(completed'[Len(completed')].ok
                /\ completed'[Len(completed')].kind = "return")) =>
              token' = token]_vars

\* C20 witness: after a successful exchange that returned tok1, an
\* unsubscribe call has sent tok1 as the bearer
C20_Witness ==
    /\ Len(completed) = 1
    /\ completed[1].method = "auth"
    /\ completed[1].ok
    /\ completed[1].body = BodyToken1
    /\ token = "tok1"
    /\ Len(sent) = 2
    /\ sent[2].method = "unsubscribe"
    /\ sent[2].bearer = "tok1"

\* C21: the checks are applied in the order headers, JSON, signature,
\* message type, and the answer is that of the first check that fails: with
\* the four headers a body that does not parse is answered 400 "Invalid JSON
\* body" whatever the signature is, and with a body that parses a signature
\* other than the right one is answered 401 whatever the message type and
\* the content of the body are.
C21_FirstFailingCheck ==
    /\ (Finished /\ AllHeaders /\ JSONparse(req.body).kind = "error") =>
          /\ pc = "done"
          /\ result = Response(400, "", "Invalid JSON body", "", <<>>)
    /\ (/\ Finished
        /\ AllHeaders
        /\ JSONparse(req.body).kind # "error"
        /\ req.signature # Some(RightSignature)) =>
          /\ pc = "done"
          /\ result = Response(401, "", "Invalid signature", "", <<>>)

\* the handlers that the stage in progress has called
CalledBy(via) == {calls[i].handler : i \in Via(via)}

\* C22: within one registry group every handler is started without waiting
\* for another handler of the group: while the group is being started the
\* next handler can be called whatever calls are pending, and when the
\* dispatcher waits for the group every handler of the group has been
\* started.
C22_SiblingsNotAwaited ==
    /\ pc \in MapStates => ENABLED MapNext
    /\ pc = "awaitSpecific" => CalledBy("specific") = Members(group)
    /\ pc = "awaitAll" => CalledBy("all") = Members(group)

\* C22 witness: the second handler of the type-specific group has been
\* started while the first one is still pending
C22_Witness ==
    /\ AcceptedNotification
    /\ pc = "awaitSpecific"
    /\ Len(group) = 2
    /\ Call("specific", group[1]) \in running
    /\ CalledBy("specific") = {group[1], group[2]}

\* C23: the 204 answer to a notification is not produced while a handler
\* invoked for it is pending; a pending call ends only when its promise is
\* fulfilled or rejected (there is no timeout), so a handler that never
\* completes keeps the answer from being produced; and when every handler
\* completes without failure the 204 answer is eventually produced.
C23_AnswerAfterHandlers ==
    /\ [](result.status = 204 => running = {})
    /\ [][\A c \in running \ running' :
             Complete(c) \/ Reject(c) \/ pc' = "idle"]_vars
    /\ (AcceptedNotification /\ pc = "direct") ~>
           ((pc = "done" /\ result.status = 204) \/ failed)

\* C23 witness: the dispatcher waits for a pending wildcard handler and has
\* no answer yet
C23_Witness ==
    /\ AcceptedNotification
    /\ pc = "awaitAll"
    /\ running # {}
    /\ result = NoResult

\* C24: the dispatcher only reads the registry: no step of the processing
\* of a request (accepted or not, of any message type) changes the keys of
\* the registry or the handlers under a key.
C24_RegistryOnlyRead ==
    [][(dispatch' # dispatch) =>
          (/\ Registry' = Registry
           /\ eventHandlers' = eventHandlers
           /\ sets' = sets)]_vars

\* C24 witness: a notification was answered 204 after a registered handler
\* was called, and the handler is still registered
C24_Witness ==
    /\ AcceptedNotification
    /\ pc = "done"
    /\ result.status = 204
    /\ eventType = "channel.follow"
    /\ Via("specific") # {}
    /\ CalledBy("specific") = Registry["channel.follow"]

\* C25: a handler (direct, fallback, of the event type or wildcard) is
\* invoked for a request only if the four headers are present, the body
\* parses as JSON, the signature is the HMAC of message id + timestamp + raw
\* body under the secret and the message type is notification; a request
\* answered 400, 401 or 200 has invoked no handler.
C25_HandlersOnlyForSignedNotifications ==
    /\ calls # <<>> =>
          /\ AllHeaders
          /\ JSONparse(req.body).kind # "error"
          /\ req.signature = Some(RightSignature)
          /\ req.messageType = Some("notification")
    /\ (pc = "done" /\ result.status \in {200, 400, 401}) => calls = <<>>

\* C25 witness: the fallback was called for a well-signed notification, with
\* a secret under which a request signed with the other secret is refused
C25_Witness ==
    /\ WellSigned
    /\ req.messageType = Some("notification")
    /\ pc = "awaitUnknown"
    /\ Via("unknown") # {}
    /\ \E s \in Secrets \ {opts.secret} :
          SenderSignature[s, Value(req.messageId), Value(req.timestamp), req.body]
              # RightSignature

\* the handlers that stage via has called, in the order of the calls
CalledSeq(via) ==
    LET s == SelectSeq(calls, LAMBDA c : c.via = via)
    IN  [i \in 1..Len(s) |-> s[i].handler]

\* C26 as stated: when the call of the dispatcher has ended, the handlers
\* that the last registry group has invoked are exactly those of the array
\* made when the group was started.
C26_GroupInvokesAllOfStart ==
    Finished =>
        /\ Via("all") # {} => CalledBy("all") = Members(group)
        /\ (Via("all") = {} /\ Via("specific") # {}) =>
               CalledBy("specific") = Members(group)

\* C26 amended: a registry group works on the array made from the set of
\* its key when the group is started. The array does not change while the
\* group is started or awaited, whatever is registered or unregistered
\* meanwhile; the group calls the handlers of the array in order, each at
\* most once, all of them by the time it is awaited and when the call
\* returns 204; the set of '*' is read when no call of an earlier stage is
\* pending.
C26_GroupIsSnapshot ==
    /\ [][(pc = "specific" /\ eventType \in DOMAIN eventHandlers) =>
              (group' = Lookup(eventType))]_vars
    /\ [][(pc = "all" /\ Wildcard \in DOMAIN eventHandlers) =>
              (group' = Lookup(Wildcard))]_vars
    /\ [][(pc \in MapStates \cup {"awaitSpecific", "awaitAll"}) =>
              (group' = group)]_vars
    /\ [](/\ pc \in {"mapSpecific", "awaitSpecific"} =>
                CalledSeq("specific") = SubSeq(group, 1, idx - 1)
          /\ pc \in {"mapAll", "awaitAll"} =>
                CalledSeq("all") = SubSeq(group, 1, idx - 1)
          /\ pc \in {"awaitSpecific", "awaitAll"} => idx = Len(group) + 1
          /\ (pc = "threw" /\ thrown = "HandlerError" /\ Via("all") # {}) =>
                \E n \in 1..Len(group) : CalledSeq("all") = SubSeq(group, 1, n)
          /\ (pc = "done" /\ Via("all") # {}) => CalledSeq("all") = group
          /\ pc = "all" => running = {}
          /\ pc \in {"mapAll", "awaitAll"} => \A c \in running : c.via = "all")

\* C26 witness: two handlers are in the array of the type-specific group,
\* the second one is no longer registered under the event type, and the
\* group has called both
C26_Witness ==
    /\ AcceptedNotification
    /\ pc = "awaitSpecific"
    /\ Len(group) = 2
    /\ CalledSeq("specific") = group
    /\ eventType \in DOMAIN eventHandlers
    /\ group[2] \notin Members(Lookup(eventType))

\* C27: after any sequence of register and unregister calls every key of
\* the registry maps to a set that is not empty: the key goes with its last
\* handler, and a register call leaves its handler under its key.
C27_NoEmptySet ==
    /\ [](\A k \in DOMAIN eventHandlers : Lookup(k) # <<>> /\ Registry[k] # {})
    /\ [][Len(closures') > Len(closures) =>
             LET c == closures'[Len(closures')]
             IN  /\ c.eventType \in DOMAIN eventHandlers'
                 /\ c.handler \in Registry'[c.eventType]]_vars
    /\ [][\A k \in DOMAIN eventHandlers :
             (sets'[eventHandlers[k]] = <<>>) => (k \notin DOMAIN eventHandlers')]_vars

\* C27 witness: the only handler of a key was unregistered and the key is
\* gone, while another key still has a handler
C27_Witness ==
    /\ \E i \in DOMAIN closures :
          /\ called[i]
          /\ closures[i].eventType \notin DOMAIN eventHandlers
    /\ \E k \in DOMAIN eventHandlers : Registry[k] # {}

\* the handlers registered under '*' and under no other key
WildcardOnly ==
    {h \in Members(Lookup(Wildcard)) :
        \A k \in DOMAIN eventHandlers \ {Wildcard} : h \notin Registry[k]}

\* C28: when an accepted notification has been answered 204, a handler
\* registered under '*' only has been invoked exactly once, whatever the
\* subscription type of the notification is.
C28_WildcardOnlyOnce ==
    (AcceptedNotification /\ pc = "done" /\ result.status = 204) =>
        \A h \in WildcardOnly :
            Cardinality({i \in DOMAIN calls : calls[i].handler = h}) = 1
=============================================================================
